---- MODULE Spec2Model ----
(***************************************************************************)
(* A model of the smart-home controller of src/main.js: the device state   *)
(* machines (Light, Door, TemperatureSensor, DeviceAdapter), the commands  *)
(* and their decorators (SecurityProxy, LogCommand), the invoker           *)
(* (RemoteControl), the observer (HeatingSystem) and the chat room         *)
(* (HouseChatRoom).                                                        *)
(*                                                                         *)
(* Every call of the program is synchronous and runs to completion, so a   *)
(* call is one action.  The calls a handler makes are operators over a     *)
(* "world" record w (the mutable fields the call chain can touch, and the  *)
(* trace of what the call emitted); an action commits the world the        *)
(* outermost call returns.                                                 *)
(***************************************************************************)
EXTENDS Integers, Sequences, FiniteSets, TLC

VARIABLES
    devices,      \* House.devices: the registry, in insertion order
    users,        \* House.users
    chatUsers,    \* HouseChatRoom.users
    isOn,         \* Device.isOn of every device object
    isLocked,     \* Door.isLocked of every door object
    temperature,  \* TemperatureSensor.temperature of every sensor object
    observers,    \* Device.observers of every device object, in insertion order
    strategy,     \* HeatingSystem.strategy of every heating system
    history,      \* RemoteControl.history of the invoker
    op,           \* the call made last: its name and its argument
    result,       \* what that call returned (or the fault it raised)
    trace,        \* what that call emitted, in order: observer updates,
                  \* systemLog and chatLog records, receiveMessage calls
    recent        \* the last two calls, each with the booleans of the devices
                  \* before it (kept by SpecInverse only)

vars == <<devices, users, chatUsers, isOn, isLocked, temperature, observers,
          strategy, history, op, result, trace, recent>>

(***************************************************************************)
(* Bounds of the model.                                                    *)
(***************************************************************************)
\* the longest undo history the model lets an invoker grow
MaxHistory == 2
\* the most users the model registers
MaxUsers == 3
\* the most subscriptions (observer, device) the model makes
MaxSubscriptions == 2

(***************************************************************************)
(* The objects of the program.  An object is named by an identifier; its   *)
(* class and its name field are fixed at construction.                     *)
(***************************************************************************)
Lights == {"light"}
Doors == {"door"}
Sensors == {"sensor"}
Adapters == {"adapter"}
Dev == Lights \cup Doors \cup Sensors \cup Adapters

\* Device.name, as initApp constructs the devices
NameOf ==
    [light |-> "Living Room Light", door |-> "Front Door",
     sensor |-> "Temperature Sensor", adapter |-> "Old Thermostat"]

\* the User objects; two of them carry the same name
UserObjs == {"john", "mary", "paul", "john2"}

\* User.name
UserName == [john |-> "John", mary |-> "Mary", paul |-> "Paul", john2 |-> "John"]

\* the HeatingSystem objects, the observers of the program
Obs == {"heating", "heating2"}

\* the readings the model gives a sensor, on both sides of the threshold
Temps == {16, 18, 20}

Undefined == "undefined"

RECURSIVE SeqMin(_)
SeqMin(S) ==
    LET x == CHOOSE y \in S : TRUE
    IN  IF S = {x} THEN x
        ELSE LET m == SeqMin(S \ {x}) IN IF x < m THEN x ELSE m

(***************************************************************************)
(* House                                                                   *)
(***************************************************************************)
\* Array.prototype.find: the first element that satisfies the test
findDevice(name) ==
    LET hits == {i \in DOMAIN devices : NameOf[devices[i]] = name}
    IN  IF hits = {} THEN Undefined ELSE devices[SeqMin(hits)]

\* House.findUser, over house.users
findUser(name) ==
    LET hits == {i \in DOMAIN users : UserName[users[i]] = name}
    IN  IF hits = {} THEN Undefined ELSE users[SeqMin(hits)]

systemLog(w, message) ==
    [w EXCEPT !.trace = Append(@, [ev |-> "systemLog", message |-> message])]

chatLog(w, message) ==
    [w EXCEPT !.trace = Append(@, [ev |-> "chatLog", message |-> message])]

(***************************************************************************)
(* HeatingSystem                                                           *)
(***************************************************************************)
EcoMode_heat == "Eco mode: Heating to 18C"
ComfortMode_heat == "Comfort mode: Heating to 22C"

ThresholdTemp == 18

heat(w, o) ==
    IF w.strategy[o] = "ComfortMode" THEN ComfortMode_heat ELSE EcoMode_heat

setStrategy(w, o, s) == [w EXCEPT !.strategy[o] = s]

\* a mutant: the threshold itself counts as cold (<= for <)
HeatingSystem_update_inclusive(w, o, d) ==
    IF d \in Sensors
    THEN IF w.temperature[d] <= ThresholdTemp
         THEN LET w1 == setStrategy(w, o, "ComfortMode")
              IN  systemLog(w1, "Heating system activated: " \o heat(w1, o))
         ELSE setStrategy(w, o, "EcoMode")
    ELSE w

\* a mutant: the class of the device is not tested; a device without a
\* temperature compares as not below the threshold
HeatingSystem_update_untyped(w, o, d) ==
    IF d \in Sensors /\ w.temperature[d] < ThresholdTemp
    THEN LET w1 == setStrategy(w, o, "ComfortMode")
         IN  systemLog(w1, "Heating system activated: " \o heat(w1, o))
    ELSE setStrategy(w, o, "EcoMode")

HeatingSystem_update(w, o, d) ==
    IF d \in Sensors
    THEN IF w.temperature[d] < ThresholdTemp
         THEN LET w1 == setStrategy(w, o, "ComfortMode")
              IN  systemLog(w1, "Heating system activated: " \o heat(w1, o))
         ELSE setStrategy(w, o, "EcoMode")
    ELSE w

(***************************************************************************)
(* Device                                                                  *)
(***************************************************************************)
\* the fields of device d an observer reads when it is handed the device
Seen(w, d) ==
    [isOn |-> w.isOn[d],
     isLocked |-> IF d \in Doors THEN w.isLocked[d] ELSE Undefined,
     temperature |-> IF d \in Sensors THEN w.temperature[d] ELSE Undefined]

\* observer.update(this): the call is recorded, then the observer runs
update(w, o, d) ==
    HeatingSystem_update(
        [w EXCEPT !.trace = Append(@, [ev |-> "update", observer |-> o,
                                       device |-> d, seen |-> Seen(w, d)])],
        o, d)

RECURSIVE forEachObserver(_, _, _)
forEachObserver(w, os, d) ==
    IF os = <<>> THEN w
    ELSE forEachObserver(update(w, Head(os), d), Tail(os), d)

\* a mutant: only the observer subscribed first is notified
notifyObservers_first(w, d) ==
    IF observers[d] = <<>> THEN w ELSE update(w, Head(observers[d]), d)

notifyObservers(w, d) == forEachObserver(w, observers[d], d)

\* Light.turnOn / DeviceAdapter.turnOn
turnOn(w, d) ==
    [w |-> notifyObservers([w EXCEPT !.isOn[d] = TRUE], d),
     ret |-> IF d \in Adapters
             THEN "Old device " \o NameOf[d] \o " activated"
             ELSE "Light " \o NameOf[d] \o " turned on"]

\* a mutant: turnOff assigns true, as turnOn does
turnOff_setsTrue(w, d) ==
    [w |-> notifyObservers([w EXCEPT !.isOn[d] = TRUE], d),
     ret |-> IF d \in Adapters
             THEN "Old device " \o NameOf[d] \o " deactivated"
             ELSE "Light " \o NameOf[d] \o " turned off"]

\* Light.turnOff / DeviceAdapter.turnOff
turnOff(w, d) ==
    [w |-> notifyObservers([w EXCEPT !.isOn[d] = FALSE], d),
     ret |-> IF d \in Adapters
             THEN "Old device " \o NameOf[d] \o " deactivated"
             ELSE "Light " \o NameOf[d] \o " turned off"]

\* a mutant: lock also assigns isOn
lock_setsOn(w, d) ==
    [w |-> notifyObservers([w EXCEPT !.isLocked[d] = TRUE, !.isOn[d] = TRUE], d),
     ret |-> "Door " \o NameOf[d] \o " locked"]

lock(w, d) ==
    [w |-> notifyObservers([w EXCEPT !.isLocked[d] = TRUE], d),
     ret |-> "Door " \o NameOf[d] \o " locked"]

unlock(w, d) ==
    [w |-> notifyObservers([w EXCEPT !.isLocked[d] = FALSE], d),
     ret |-> "Door " \o NameOf[d] \o " unlocked"]

setTemperature(w, d, temp) ==
    [w |-> notifyObservers([w EXCEPT !.temperature[d] = temp], d),
     ret |-> "Temperature sensor " \o NameOf[d] \o " updated to "
                \o ToString(temp) \o "C"]

(***************************************************************************)
(* Commands.  A command object is the record                               *)
(*   [type |-> its class, device |-> the device bound at construction,     *)
(*    wrappers |-> the decorators around it, outermost first].             *)
(* LogCommand(SecurityProxy(LightOffCommand(light))) has                   *)
(* wrappers = <<"LogCommand", "SecurityProxy">>.                           *)
(***************************************************************************)
LightCommandTypes == {"LightOnCommand", "LightOffCommand"}
DoorCommandTypes == {"DoorLockCommand", "DoorUnlockCommand"}

Cmd(type, d) == [type |-> type, device |-> d, wrappers |-> <<>>]
Wrap(decorator, c) == [c EXCEPT !.wrappers = <<decorator>> \o @]

\* this.command of a decorator
Inner(c) == [c EXCEPT !.wrappers = Tail(@)]

\* obj.constructor.name
ConstructorName(c) == IF c.wrappers = <<>> THEN c.type ELSE Head(c.wrappers)

\* c instanceof LightOffCommand
IsLightOffCommand(c) == c.wrappers = <<>> /\ c.type = "LightOffCommand"

\* a mutant: execute() of LightOnCommand flips the light
Command_execute_toggle(w, c) ==
    CASE c.type = "LightOnCommand" ->
            IF w.isOn[c.device] THEN turnOff(w, c.device)
            ELSE turnOn(w, c.device)
      [] c.type = "LightOffCommand" -> turnOff(w, c.device)
      [] c.type = "DoorLockCommand" -> lock(w, c.device)
      [] c.type = "DoorUnlockCommand" -> unlock(w, c.device)

\* execute() of the four command classes
Command_execute(w, c) ==
    CASE c.type = "LightOnCommand" -> turnOn(w, c.device)
      [] c.type = "LightOffCommand" -> turnOff(w, c.device)
      [] c.type = "DoorLockCommand" -> lock(w, c.device)
      [] c.type = "DoorUnlockCommand" -> unlock(w, c.device)

\* undo() of the four command classes
Command_undo(w, c) ==
    CASE c.type = "LightOnCommand" -> turnOff(w, c.device)
      [] c.type = "LightOffCommand" -> turnOn(w, c.device)
      [] c.type = "DoorLockCommand" -> unlock(w, c.device)
      [] c.type = "DoorUnlockCommand" -> lock(w, c.device)

SecurityWarning ==
    "Security Warning: Cannot turn off lights while front door is unlocked"

\* the fault of calling a method the object does not have
UndoFault == "TypeError: command.undo is not a function"

RECURSIVE execute(_, _)

\* a mutant: the front door is not consulted
SecurityProxy_execute_unchecked(w, c) == execute(w, Inner(c))

\* SecurityProxy.execute, c the proxy
SecurityProxy_execute(w, c) ==
    LET frontDoor == findDevice("Front Door")
    IN  IF /\ IsLightOffCommand(Inner(c))
           /\ frontDoor # Undefined
           /\ ~w.isLocked[frontDoor]
        THEN [w |-> w, ret |-> SecurityWarning]
        ELSE execute(w, Inner(c))

\* a mutant: the result is logged and not returned
LogCommand_execute_noReturn(w, c) ==
    LET w1 == systemLog(w, "Executing command: " \o ConstructorName(Inner(c)))
        r == execute(w1, Inner(c))
    IN  [w |-> systemLog(r.w, "Command result: " \o r.ret), ret |-> Undefined]

\* LogCommand.execute, c the log command
LogCommand_execute(w, c) ==
    LET w1 == systemLog(w, "Executing command: " \o ConstructorName(Inner(c)))
        r == execute(w1, Inner(c))
    IN  [w |-> systemLog(r.w, "Command result: " \o r.ret), ret |-> r.ret]

\* command.execute(), dispatched on the class of the object
execute(w, c) ==
    IF c.wrappers = <<>> THEN Command_execute(w, c)
    ELSE IF Head(c.wrappers) = "SecurityProxy" THEN SecurityProxy_execute(w, c)
    ELSE LogCommand_execute(w, c)

\* command.undo(): SecurityProxy and LogCommand define no undo and do not
\* extend Command, so the call on a decorator raises a TypeError
undo(w, c) ==
    IF c.wrappers = <<>> THEN Command_undo(w, c)
    ELSE [w |-> w, ret |-> UndoFault]

(***************************************************************************)
(* RemoteControl.  The operators return the world, the history and the     *)
(* value returned (or the fault raised).                                   *)
(***************************************************************************)
\* a mutant: a refused command is not recorded
pressButton_skipRefused(w, h, c) ==
    LET r == execute(w, c)
    IN  [w |-> r.w, ret |-> r.ret,
         history |-> IF r.ret = SecurityWarning THEN h ELSE Append(h, c)]

pressButton(w, h, c) ==
    LET r == execute(w, c)
    IN  [w |-> r.w, history |-> Append(h, c), ret |-> r.ret]

NoCommands == "No commands to undo"

\* the fault of calling a method of the undefined value pop() gives
PopFault == "TypeError: Cannot read properties of undefined (reading 'undo')"

\* a mutant: the length test lets the empty history through
RemoteControl_undo_unguarded(w, h) ==
    IF Len(h) > 0
    THEN LET r == undo(w, h[Len(h)])
         IN  [w |-> r.w, history |-> SubSeq(h, 1, Len(h) - 1), ret |-> r.ret]
    ELSE [w |-> w, history |-> h, ret |-> PopFault]

RemoteControl_undo(w, h) ==
    IF Len(h) > 0
    THEN LET r == undo(w, h[Len(h)])
         IN  [w |-> r.w, history |-> SubSeq(h, 1, Len(h) - 1), ret |-> r.ret]
    ELSE [w |-> w, history |-> h, ret |-> NoCommands]

(***************************************************************************)
(* User and HouseChatRoom                                                  *)
(***************************************************************************)
displayMessage(w, from, message, to) ==
    chatLog(w, "[" \o from \o " -> " \o to \o "]: " \o message)

\* User.receiveMessage: the call is recorded, then the user displays it
receiveMessage(w, u, from, message) ==
    displayMessage(
        [w EXCEPT !.trace = Append(@, [ev |-> "receiveMessage", user |-> u,
                                       from |-> from, message |-> message])],
        from, message, UserName[u])

\* the forEach of the broadcast, over the users us
RECURSIVE forEachUser(_, _, _, _)
\* a mutant of forEachUser: the sender is not skipped
forEachUser_all(w, us, from, message) ==
    IF us = <<>> THEN w
    ELSE forEachUser(receiveMessage(w, Head(us), UserName[from], message),
                     Tail(us), from, message)

forEachUser(w, us, from, message) ==
    IF us = <<>> THEN w
    ELSE forEachUser(
             IF UserName[Head(us)] # UserName[from]
             THEN receiveMessage(w, Head(us), UserName[from], message)
             ELSE w,
             Tail(us), from, message)

\* this.users.find(user => user.name === to)
findRecipient(cu, to) ==
    LET hits == {i \in DOMAIN cu : UserName[cu[i]] = to}
    IN  IF hits = {} THEN Undefined ELSE cu[SeqMin(hits)]

\* a mutant: a recipient that is not found is still recorded
sendMessage_recordsUnknown(w, cu, from, to, message) ==
    IF to = "all"
    THEN displayMessage(forEachUser(w, cu, from, message),
                        UserName[from], message, "all")
    ELSE LET recipient == findRecipient(cu, to)
         IN  IF recipient # Undefined
             THEN displayMessage(
                      receiveMessage(w, recipient, UserName[from], message),
                      UserName[from], message, to)
             ELSE displayMessage(w, UserName[from], message, to)

\* HouseChatRoom.sendMessage, cu the room's users
sendMessage(w, cu, from, to, message) ==
    IF to = "all"
    THEN displayMessage(forEachUser(w, cu, from, message),
                        UserName[from], message, "all")
    ELSE LET recipient == findRecipient(cu, to)
         IN  IF recipient # Undefined
             THEN displayMessage(
                      receiveMessage(w, recipient, UserName[from], message),
                      UserName[from], message, to)
             ELSE w

(***************************************************************************)
(* The state after construction, and the calls.                            *)
(***************************************************************************)
\* the world a call starts in: the current fields and an empty trace
World ==
    [isOn |-> isOn, isLocked |-> isLocked, temperature |-> temperature,
     strategy |-> strategy, trace |-> <<>>]

\* the world a call leaves
Commit(w) ==
    /\ isOn' = w.isOn
    /\ isLocked' = w.isLocked
    /\ temperature' = w.temperature
    /\ strategy' = w.strategy
    /\ trace' = w.trace

Called(name, arg) == op' = [name |-> name, arg |-> arg]

Init ==
    /\ devices = <<>>
    /\ users = <<>>
    /\ chatUsers = <<>>
    /\ isOn = [d \in Dev |-> FALSE]
    /\ isLocked = [d \in Doors |-> TRUE]
    /\ temperature = [d \in Sensors |-> 20]
    /\ observers = [d \in Dev |-> <<>>]
    /\ strategy = [o \in Obs |-> "EcoMode"]
    /\ history = <<>>
    /\ op = [name |-> "new", arg |-> Undefined]
    /\ result = Undefined
    /\ trace = <<>>
    /\ recent = <<>>

\* house.addDevice(d), each device object registered once
AddDevice(d) ==
    /\ \A i \in DOMAIN devices : devices[i] # d
    /\ devices' = Append(devices, d)
    /\ Called("addDevice", d)
    /\ result' = Undefined
    /\ trace' = <<>>
    /\ UNCHANGED <<users, chatUsers, isOn, isLocked, temperature, observers,
                   strategy, history>>

RECURSIVE SumLen(_, _)
SumLen(f, S) ==
    IF S = {} THEN 0
    ELSE LET x == CHOOSE y \in S : TRUE IN Len(f[x]) + SumLen(f, S \ {x})

\* d.addObserver(o), each observer subscribed once to a device
AddObserver(d, o) ==
    /\ SumLen(observers, Dev) < MaxSubscriptions
    /\ \A i \in DOMAIN observers[d] : observers[d][i] # o
    /\ observers' = [observers EXCEPT ![d] = Append(@, o)]
    /\ Called("addObserver", d)
    /\ result' = Undefined
    /\ trace' = <<>>
    /\ UNCHANGED <<devices, users, chatUsers, isOn, isLocked, temperature,
                   strategy, history>>

\* remote.pressButton(c)
PressButton(c) ==
    /\ Len(history) < MaxHistory
    /\ LET r == pressButton(World, history, c)
       IN  /\ Commit(r.w)
           /\ history' = r.history
           /\ result' = r.ret
    /\ Called("pressButton", c)
    /\ UNCHANGED <<devices, users, chatUsers, observers>>

\* remote.undo()
Undo ==
    /\ LET r == RemoteControl_undo(World, history)
       IN  /\ Commit(r.w)
           /\ history' = r.history
           /\ result' = r.ret
    /\ Called("undo", IF history = <<>> THEN Undefined ELSE history[Len(history)])
    /\ UNCHANGED <<devices, users, chatUsers, observers>>

(***************************************************************************)
(* Spec: the invoker, the commands and their decorators, over a registry   *)
(* that holds the front door or not.                                       *)
(***************************************************************************)
\* the decorations the model presses: none, each decorator alone, the
\* facade's LogCommand(SecurityProxy(c)) and the reverse nesting
Wrappings ==
    {<<>>, <<"SecurityProxy">>, <<"LogCommand">>,
     <<"LogCommand", "SecurityProxy">>, <<"SecurityProxy", "LogCommand">>}

PlainCommands ==
    {Cmd(t, d) : t \in LightCommandTypes, d \in Lights}
        \cup {Cmd(t, d) : t \in DoorCommandTypes, d \in Doors}

Commands == {[c EXCEPT !.wrappers = ws] : c \in PlainCommands, ws \in Wrappings}

Next ==
    \/ \E d \in Doors : AddDevice(d) /\ UNCHANGED recent
    \/ \E d \in Lights, o \in {"heating"} : AddObserver(d, o) /\ UNCHANGED recent
    \/ \E c \in Commands : PressButton(c) /\ UNCHANGED recent
    \/ Undo /\ UNCHANGED recent

Spec == Init /\ [][Next]_vars

(***************************************************************************)
(* The device transitions called directly.                                 *)
(***************************************************************************)
\* d.turnOn(), d a Light or a DeviceAdapter
TurnOn(d) ==
    /\ LET r == turnOn(World, d) IN Commit(r.w) /\ result' = r.ret
    /\ Called("turnOn", d)
    /\ UNCHANGED <<devices, users, chatUsers, observers, history>>

\* d.turnOff(), d a Light or a DeviceAdapter
TurnOff(d) ==
    /\ LET r == turnOff(World, d) IN Commit(r.w) /\ result' = r.ret
    /\ Called("turnOff", d)
    /\ UNCHANGED <<devices, users, chatUsers, observers, history>>

\* d.lock(), d a Door
Lock(d) ==
    /\ LET r == lock(World, d) IN Commit(r.w) /\ result' = r.ret
    /\ Called("lock", d)
    /\ UNCHANGED <<devices, users, chatUsers, observers, history>>

\* d.unlock(), d a Door
Unlock(d) ==
    /\ LET r == unlock(World, d) IN Commit(r.w) /\ result' = r.ret
    /\ Called("unlock", d)
    /\ UNCHANGED <<devices, users, chatUsers, observers, history>>

\* d.setTemperature(temp), d a TemperatureSensor
SetTemperature(d, temp) ==
    /\ LET r == setTemperature(World, d, temp) IN Commit(r.w) /\ result' = r.ret
    /\ Called("setTemperature", d)
    /\ UNCHANGED <<devices, users, chatUsers, observers, history>>

\* o.heat(), o a HeatingSystem
Heat(o) ==
    /\ result' = heat(World, o)
    /\ Called("heat", o)
    /\ trace' = <<>>
    /\ UNCHANGED <<devices, users, chatUsers, isOn, isLocked, temperature,
                   observers, strategy, history>>

(***************************************************************************)
(* SpecDevice: the transitions of the four devices and the subscriptions   *)
(* of the two heating systems.                                             *)
(***************************************************************************)
NextDevice ==
    \/ \E o \in Obs : Heat(o) /\ UNCHANGED recent
    \/ \E d \in Dev, o \in Obs : AddObserver(d, o) /\ UNCHANGED recent
    \/ \E d \in Lights \cup Adapters : TurnOn(d) /\ UNCHANGED recent
    \/ \E d \in Lights \cup Adapters : TurnOff(d) /\ UNCHANGED recent
    \/ \E d \in Doors : Lock(d) /\ UNCHANGED recent
    \/ \E d \in Doors : Unlock(d) /\ UNCHANGED recent
    \/ \E d \in Sensors, t \in Temps : SetTemperature(d, t) /\ UNCHANGED recent

SpecDevice == Init /\ [][NextDevice]_vars

(***************************************************************************)
(* SpecInverse: the on/off and lock/unlock transitions, with the last two  *)
(* calls remembered.                                                       *)
(***************************************************************************)
\* the call just made and the booleans before it, added to the last one
Remember ==
    LET call == [name |-> op'.name, arg |-> op'.arg,
                 isOn |-> isOn, isLocked |-> isLocked]
    IN  recent' = IF recent = <<>> THEN <<call>>
                  ELSE <<recent[Len(recent)], call>>

NextInverse ==
    \/ \E d \in Lights, o \in {"heating"} : AddObserver(d, o) /\ Remember
    \/ \E d \in Lights \cup Adapters : TurnOn(d) /\ Remember
    \/ \E d \in Lights \cup Adapters : TurnOff(d) /\ Remember
    \/ \E d \in Doors : Lock(d) /\ Remember
    \/ \E d \in Doors : Unlock(d) /\ Remember

SpecInverse == Init /\ [][NextInverse]_vars

(***************************************************************************)
(* SpecChat: the users of the house and the messages they send.            *)
(***************************************************************************)
\* house.addUser(u), each user object registered once
AddUser(u) ==
    /\ Len(users) < MaxUsers
    /\ \A i \in DOMAIN users : users[i] # u
    /\ users' = Append(users, u)
    /\ chatUsers' = Append(chatUsers, u)
    /\ Called("addUser", u)
    /\ result' = Undefined
    /\ trace' = <<>>
    /\ UNCHANGED <<devices, isOn, isLocked, temperature, observers, strategy,
                   history>>

\* from.sendMessage(to, message)
SendMessage(from, to, message) ==
    /\ Commit(sendMessage(World, chatUsers, from, to, message))
    /\ Called("sendMessage", [from |-> from, to |-> to, message |-> message])
    /\ result' = Undefined
    /\ UNCHANGED <<devices, users, chatUsers, observers, history>>

\* the names a message is addressed to: the sentinel, the names of the
\* users and a name no user carries
Addressees == {"all", "John", "Mary", "Paul", "Nobody"}

Messages == {"hi"}

NextChat ==
    \/ \E u \in UserObjs : AddUser(u) /\ UNCHANGED recent
    \/ \E from \in UserObjs, to \in Addressees, m \in Messages :
            SendMessage(from, to, m) /\ UNCHANGED recent

SpecChat == Init /\ [][NextChat]_vars

(***************************************************************************)
(* SmartHomeFacade.  The operators return the world, the history of the    *)
(* facade's remote and the results.                                        *)
(***************************************************************************)
\* the commands the scenarios build
LeaveLightCommand(d) ==
    Wrap("LogCommand", Wrap("SecurityProxy", Cmd("LightOffCommand", d)))
LeaveDoorCommand(d) == Wrap("LogCommand", Cmd("DoorLockCommand", d))
ArriveDoorCommand(d) == Wrap("LogCommand", Cmd("DoorUnlockCommand", d))
ArriveLightCommand(d) == Wrap("LogCommand", Cmd("LightOnCommand", d))

\* one step of a scenario: if (d) results.push(remote.pressButton(c));
\* s holds the world, the history and the results so far
Step(s, d, c) ==
    IF d # Undefined
    THEN LET r == pressButton(s.w, s.history, c)
         IN  [w |-> r.w, history |-> r.history, ret |-> Append(s.ret, r.ret)]
    ELSE s

\* the end of a scenario: the log record, and the results returned
Finish(s, message) == [s EXCEPT !.w = systemLog(@, message)]

\* a mutant: the turn-off is not wrapped in the proxy
leaveHome_ungated(w, h) ==
    LET livingRoomLight == findDevice("Living Room Light")
        frontDoor == findDevice("Front Door")
        s0 == [w |-> w, history |-> h, ret |-> <<>>]
        s1 == Step(s0, livingRoomLight,
                   Wrap("LogCommand", Cmd("LightOffCommand", livingRoomLight)))
        s2 == Step(s1, frontDoor, LeaveDoorCommand(frontDoor))
    IN  Finish(s2, "Left home mode activated")

\* a mutant: the door is locked before the light is turned off
leaveHome_doorFirst(w, h) ==
    LET livingRoomLight == findDevice("Living Room Light")
        frontDoor == findDevice("Front Door")
        s0 == [w |-> w, history |-> h, ret |-> <<>>]
        s1 == Step(s0, frontDoor, LeaveDoorCommand(frontDoor))
        s2 == Step(s1, livingRoomLight, LeaveLightCommand(livingRoomLight))
    IN  Finish(s2, "Left home mode activated")

\* SmartHomeFacade.leaveHome
leaveHome(w, h) ==
    LET livingRoomLight == findDevice("Living Room Light")
        frontDoor == findDevice("Front Door")
        s0 == [w |-> w, history |-> h, ret |-> <<>>]
        s1 == Step(s0, livingRoomLight, LeaveLightCommand(livingRoomLight))
        s2 == Step(s1, frontDoor, LeaveDoorCommand(frontDoor))
    IN  Finish(s2, "Left home mode activated")

\* a mutant: the light found at construction is used without the test
arriveHome_unchecked(w, h) ==
    LET frontDoor == findDevice("Front Door")
        s0 == [w |-> w, history |-> h, ret |-> <<>>]
        s1 == Step(s0, frontDoor, ArriveDoorCommand(frontDoor))
        s2 == Step(s1, "light", ArriveLightCommand("light"))
    IN  Finish(s2, "Arrived home mode activated")

\* SmartHomeFacade.arriveHome
arriveHome(w, h) ==
    LET frontDoor == findDevice("Front Door")
        livingRoomLight == findDevice("Living Room Light")
        s0 == [w |-> w, history |-> h, ret |-> <<>>]
        s1 == Step(s0, frontDoor, ArriveDoorCommand(frontDoor))
        s2 == Step(s1, livingRoomLight, ArriveLightCommand(livingRoomLight))
    IN  Finish(s2, "Arrived home mode activated")

\* new SmartHomeFacade(): the facade gets a new RemoteControl
NewFacade ==
    /\ history' = <<>>
    /\ Called("newFacade", Undefined)
    /\ result' = Undefined
    /\ trace' = <<>>
    /\ UNCHANGED <<devices, users, chatUsers, isOn, isLocked, temperature,
                   observers, strategy>>

\* facade.leaveHome(), while the history is within the bound
LeaveHome ==
    /\ Len(history) <= MaxHistory
    /\ LET r == leaveHome(World, history)
       IN  /\ Commit(r.w)
           /\ history' = r.history
           /\ result' = r.ret
    /\ Called("leaveHome", Undefined)
    /\ UNCHANGED <<devices, users, chatUsers, observers>>

\* facade.arriveHome(), while the history is within the bound
ArriveHome ==
    /\ Len(history) <= MaxHistory
    /\ LET r == arriveHome(World, history)
       IN  /\ Commit(r.w)
           /\ history' = r.history
           /\ result' = r.ret
    /\ Called("arriveHome", Undefined)
    /\ UNCHANGED <<devices, users, chatUsers, observers>>

(***************************************************************************)
(* SpecScenario: the two scenarios over a registry that holds the light    *)
(* and the front door or not, the devices also switched directly.          *)
(***************************************************************************)
NextScenario ==
    \/ \E d \in Lights \cup Doors : AddDevice(d) /\ UNCHANGED recent
    \/ \E d \in Lights, o \in {"heating"} : AddObserver(d, o) /\ UNCHANGED recent
    \/ \E d \in Lights : TurnOn(d) /\ UNCHANGED recent
    \/ \E d \in Lights : TurnOff(d) /\ UNCHANGED recent
    \/ \E d \in Doors : Lock(d) /\ UNCHANGED recent
    \/ \E d \in Doors : Unlock(d) /\ UNCHANGED recent
    \/ NewFacade /\ UNCHANGED recent
    \/ LeaveHome /\ UNCHANGED recent
    \/ ArriveHome /\ UNCHANGED recent

SpecScenario == Init /\ [][NextScenario]_vars

(***************************************************************************)
(* SpecCommand: the four command classes called directly, on devices that  *)
(* are in the registry or not; the last two calls are remembered.          *)
(***************************************************************************)
\* c.execute(), c one of the four command classes
Execute(c) ==
    /\ LET r == Command_execute(World, c) IN Commit(r.w) /\ result' = r.ret
    /\ Called("Command.execute", c)
    /\ UNCHANGED <<devices, users, chatUsers, observers, history>>

\* c.undo(), c one of the four command classes
UndoCommand(c) ==
    /\ LET r == Command_undo(World, c) IN Commit(r.w) /\ result' = r.ret
    /\ Called("Command.undo", c)
    /\ UNCHANGED <<devices, users, chatUsers, observers, history>>

NextCommand ==
    \/ \E d \in Lights \cup Doors : AddDevice(d) /\ Remember
    \/ \E d \in Lights, o \in {"heating"} : AddObserver(d, o) /\ Remember
    \/ \E c \in PlainCommands : Execute(c) /\ Remember
    \/ \E c \in PlainCommands : UndoCommand(c) /\ Remember

SpecCommand == Init /\ [][NextCommand]_vars

(***************************************************************************)
(* The properties.                                                         *)
(***************************************************************************)
Range(f) == {f[i] : i \in DOMAIN f}
Last(h) == h[Len(h)]
Front(h) == SubSeq(h, 1, Len(h) - 1)
Updates(tr) == SelectSeq(tr, LAMBDA e : e.ev = "update")
Received(tr) == SelectSeq(tr, LAMBDA e : e.ev = "receiveMessage")

\* the registry holds a device named 'Front Door' whose isLocked is false
FrontDoorUnlocked ==
    \E i \in DOMAIN devices :
        NameOf[devices[i]] = "Front Door" /\ isLocked[devices[i]] = FALSE

\* the step is pressButton of a command whose outermost object is a proxy
ProxyPressed ==
    /\ op'.name = "pressButton"
    /\ op'.arg.wrappers # <<>>
    /\ Head(op'.arg.wrappers) = "SecurityProxy"

\* C1: pressing SecurityProxy(c): when c is a turn-off-light command and the
\* registry holds an unlocked Front Door, the warning is returned, no
\* device field changes and nothing is emitted (no observer is notified);
\* in every other case the step is c.execute(): its result, its effect on
\* the devices and its emissions, and a delegated turn-off turns the light
\* off.
C1_ProxyVetoesOnlyLightOffWhileUnlocked ==
    [][ProxyPressed =>
        LET inner == Inner(op'.arg)
        IN  IF IsLightOffCommand(inner) /\ FrontDoorUnlocked
            THEN /\ result' = SecurityWarning
                 /\ isOn' = isOn /\ isLocked' = isLocked
                 /\ trace' = <<>>
            ELSE LET r == execute(World, inner)
                 IN  /\ result' = r.ret
                     /\ isOn' = r.w.isOn /\ isLocked' = r.w.isLocked
                     /\ trace' = r.w.trace
                     /\ IsLightOffCommand(inner) =>
                            /\ isOn'[inner.device] = FALSE
                            /\ result' = "Light Living Room Light turned off"
                            /\ Len(Updates(trace')) = Len(observers[inner.device])
       ]_vars

\* C1's case: a refused turn-off of a light that is on and observed
C1_Witness ==
    /\ op.name = "pressButton"
    /\ op.arg = Wrap("SecurityProxy", Cmd("LightOffCommand", "light"))
    /\ result = SecurityWarning
    /\ isOn["light"]
    /\ observers["light"] # <<>>
    /\ trace = <<>>

\* C2: Invoker.undo() of a recorded SecurityProxy(c) is c.undo(): it
\* returns c.undo()'s result and applies its inverse transition, whatever
\* the lock state and whether or not the execute() was refused.
C2_ProxyUndoDelegates ==
    [][(/\ op'.name = "undo"
        /\ history # <<>>
        /\ Last(history).wrappers = <<"SecurityProxy">>) =>
        LET r == Command_undo(World, Inner(Last(history)))
        IN  /\ result' = r.ret
            /\ isOn' = r.w.isOn /\ isLocked' = r.w.isLocked
       ]_vars

\* the command a decorated command decorates
Plain(c) == [c EXCEPT !.wrappers = <<>>]

\* C3: every undo() on a non-empty history removes the command pressed
\* last and reverses it (returns the result of its inverse transition and
\* applies it), so N undos reverse N pressed commands in reverse order;
\* an undo() on the empty history returns the empty-history result and
\* changes no device and no history.
C3_UndoReversesLastPressed ==
    [][op'.name = "undo" =>
        IF history = <<>>
        THEN /\ result' = NoCommands
             /\ history' = history
             /\ isOn' = isOn /\ isLocked' = isLocked
        ELSE LET r == Command_undo(World, Plain(Last(history)))
             IN  /\ history' = Front(history)
                 /\ result' = r.ret
                 /\ isOn' = r.w.isOn /\ isLocked' = r.w.isLocked
       ]_vars

Faults == {UndoFault, PopFault}

\* C4: every pressButton and every undo returns a result string; none
\* raises a fault.
C4_NoCallFaults == op.name \in {"pressButton", "undo"} => result \notin Faults

\* C5: pressButton(c) appends c to the history, once, whatever execute()
\* returned (a refusal included); the history grows by exactly one and the
\* value returned is the result of c.execute().
C5_PressButtonAlwaysRecords ==
    [][op'.name = "pressButton" =>
        /\ history' = Append(history, op'.arg)
        /\ Len(history') = Len(history) + 1
        /\ result' = execute(World, op'.arg).ret
       ]_vars

\* C5's case: a refused command is the one recorded last
C5_Witness ==
    /\ op.name = "pressButton"
    /\ result = SecurityWarning
    /\ Len(history) = 2
    /\ Last(history) = op.arg
    /\ IsLightOffCommand(Plain(op.arg))

\* C6: undo() on an empty history returns the fixed string, leaves the
\* history, every device field, the strategies and the registry as they
\* were and emits nothing (no observer is notified).
C6_UndoOnEmptyHistory ==
    [][(op'.name = "undo" /\ history = <<>>) =>
        /\ result' = NoCommands
        /\ history' = <<>>
        /\ trace' = <<>>
        /\ UNCHANGED <<devices, users, chatUsers, isOn, isLocked, temperature,
                       observers, strategy>>
       ]_vars

\* C6's case: the undo of a history that earlier undos emptied (the light
\* is on, so a command was pressed), with an observer on the light
C6_Witness ==
    /\ op.name = "undo"
    /\ result = NoCommands
    /\ history = <<>>
    /\ isOn["light"]
    /\ observers["light"] # <<>>

\* the transitions of the devices
Transitions == {"turnOn", "turnOff", "lock", "unlock", "setTemperature"}

\* the string a transition returns
Confirmation(name, d, temp) ==
    CASE name = "turnOn" ->
            IF d \in Adapters THEN "Old device Old Thermostat activated"
            ELSE "Light Living Room Light turned on"
      [] name = "turnOff" ->
            IF d \in Adapters THEN "Old device Old Thermostat deactivated"
            ELSE "Light Living Room Light turned off"
      [] name = "lock" -> "Door Front Door locked"
      [] name = "unlock" -> "Door Front Door unlocked"
      [] name = "setTemperature" ->
            "Temperature sensor Temperature Sensor updated to "
                \o ToString(temp) \o "C"

CalledInTurn(f, g) ==
    /\ Len(recent) = 2
    /\ recent[1].name = f
    /\ recent[2].name = g
    /\ recent[1].arg = recent[2].arg

\* the device of the last call
Target == recent[Len(recent)].arg

\* C8 as stated: a forward transition and then its inverse return the
\* boolean of the device to the value it had before the forward
\* transition.
C8_PairRestoresPriorValue ==
    /\ CalledInTurn("turnOn", "turnOff") => isOn[Target] = recent[1].isOn[Target]
    /\ CalledInTurn("turnOff", "turnOn") => isOn[Target] = recent[1].isOn[Target]
    /\ CalledInTurn("lock", "unlock") =>
           isLocked[Target] = recent[1].isLocked[Target]
    /\ CalledInTurn("unlock", "lock") =>
           isLocked[Target] = recent[1].isLocked[Target]

\* C8 amended: a forward transition and then its inverse leave the boolean
\* at the value the inverse assigns, whatever it was before; that is the
\* value before the forward transition exactly when the forward transition
\* changed it.
C8_PairLeavesInverseValue ==
    /\ CalledInTurn("turnOn", "turnOff") =>
           /\ isOn[Target] = FALSE
           /\ isOn[Target] = recent[1].isOn[Target] <=> ~recent[1].isOn[Target]
    /\ CalledInTurn("turnOff", "turnOn") =>
           /\ isOn[Target] = TRUE
           /\ isOn[Target] = recent[1].isOn[Target] <=> recent[1].isOn[Target]
    /\ CalledInTurn("lock", "unlock") =>
           /\ isLocked[Target] = FALSE
           /\ isLocked[Target] = recent[1].isLocked[Target]
                  <=> ~recent[1].isLocked[Target]
    /\ CalledInTurn("unlock", "lock") =>
           /\ isLocked[Target] = TRUE
           /\ isLocked[Target] = recent[1].isLocked[Target]
                  <=> recent[1].isLocked[Target]

\* C8's case: turnOn and then turnOff of a light that was already on
C8_Witness ==
    /\ CalledInTurn("turnOn", "turnOff")
    /\ Target = "light"
    /\ recent[1].isOn["light"] = TRUE
    /\ isOn["light"] = FALSE

\* the users of the chat room whose name is not the name of user from
OtherNamed(from) ==
    {u \in Range(chatUsers) : UserName[u] # UserName[from]}

\* C9: sendMessage(from, 'all', m) calls receiveMessage(from.name, m) once
\* on every user of the room whose name is not the sender's and on no one
\* else (never on the sender), and then records one entry addressed to
\* 'all', the last record of the call.
C9_BroadcastSkipsSender ==
    [][(op'.name = "sendMessage" /\ op'.arg.to = "all") =>
        LET from == op'.arg.from
            m == op'.arg.message
            got == Received(trace')
            entry == [ev |-> "chatLog",
                      message |-> "[" \o UserName[from] \o " -> all]: " \o m]
        IN  /\ \A u \in UserObjs :
                   Cardinality({i \in DOMAIN got : got[i].user = u})
                       = IF u \in OtherNamed(from) THEN 1 ELSE 0
            /\ \A i \in DOMAIN got :
                   got[i].from = UserName[from] /\ got[i].message = m
            /\ Cardinality({i \in DOMAIN trace' : trace'[i] = entry}) = 1
            /\ Last(trace') = entry
            /\ result' = Undefined
       ]_vars

\* C9's case: John broadcasts to a room of John, Mary and Paul
C9_Witness ==
    /\ op.name = "sendMessage"
    /\ op.arg.to = "all"
    /\ op.arg.from = "john"
    /\ Range(chatUsers) = {"john", "mary", "paul"}
    /\ {Received(trace)[i].user : i \in DOMAIN Received(trace)} = {"mary", "paul"}
    /\ Len(Received(trace)) = 2

\* no user of the room is named to
NoRecipient(to) == \A i \in DOMAIN chatUsers : UserName[chatUsers[i]] # to

\* C10: a message sent to a name that is not 'all' and that no user of the
\* room carries is dropped: no receiveMessage, no chat-log entry (the call
\* emits nothing), no fault, and no state changed.
C10_UnknownRecipientDropped ==
    [][(/\ op'.name = "sendMessage"
        /\ op'.arg.to # "all"
        /\ NoRecipient(op'.arg.to)) =>
        /\ trace' = <<>>
        /\ result' = Undefined
        /\ UNCHANGED <<devices, users, chatUsers, isOn, isLocked, temperature,
                       observers, strategy, history>>
       ]_vars

\* C10's case: a message to Paul in a full room that Paul is not in
C10_Witness ==
    /\ op.name = "sendMessage"
    /\ op.arg.to = "Paul"
    /\ Len(chatUsers) = MaxUsers
    /\ NoRecipient("Paul")
    /\ trace = <<>>

\* the users of the room named to
Named(to) == {i \in DOMAIN chatUsers : UserName[chatUsers[i]] = to}

\* the step sends a message to a name that a user of the room carries
DirectSend ==
    /\ op'.name = "sendMessage"
    /\ op'.arg.to # "all"
    /\ Named(op'.arg.to) # {}

\* C11: a message sent to the name of a user of the room calls
\* receiveMessage once, on the first user of that name and on no other,
\* and exactly one entry [from -> to] is recorded in the chat log for it.
C11_DirectSendRecordsOneEntry ==
    [][DirectSend =>
        LET from == op'.arg.from
            to == op'.arg.to
            m == op'.arg.message
            got == Received(trace')
            entry == [ev |-> "chatLog",
                      message |-> "[" \o UserName[from] \o " -> " \o to
                                      \o "]: " \o m]
        IN  /\ Len(got) = 1
            /\ got[1].user = chatUsers[SeqMin(Named(to))]
            /\ got[1].from = UserName[from] /\ got[1].message = m
            /\ Cardinality({i \in DOMAIN trace' : trace'[i] = entry}) = 1
       ]_vars

\* C15: no two devices of the registry share a name and no two users share
\* a name, and findDevice and findUser give the first entry registered
\* under a name.
C15_NamesUnique ==
    /\ \A i, j \in DOMAIN devices :
           NameOf[devices[i]] = NameOf[devices[j]] => i = j
    /\ \A i, j \in DOMAIN users :
           UserName[users[i]] = UserName[users[j]] => i = j
    /\ \A i \in DOMAIN users :
           findUser(UserName[users[i]])
               = users[SeqMin({j \in DOMAIN users :
                                  UserName[users[j]] = UserName[users[i]]})]
    /\ \A i \in DOMAIN devices :
           findDevice(NameOf[devices[i]])
               = devices[SeqMin({j \in DOMAIN devices :
                                    NameOf[devices[j]] = NameOf[devices[i]]})]

\* the activation records of a trace
Activations(tr) ==
    SelectSeq(tr, LAMBDA e :
        /\ e.ev = "systemLog"
        /\ e.message = "Heating system activated: Comfort mode: Heating to 22C")

\* C12: setTemperature on a sensor sets the strategy of every heating
\* system subscribed to it to ComfortMode when the temperature set is
\* below 18 and to EcoMode when it is 18 or more, and emits one activation
\* record per notification below 18 and none otherwise; so after every
\* setTemperature the strategy of a subscribed system is ComfortMode iff
\* the temperature set last is below 18.
C12_StrategyFollowsLastReading ==
    [][op'.name = "setTemperature" =>
        LET d == op'.arg
            subs == Range(observers[d])
        IN  /\ \A o \in subs :
                   strategy'[o] = IF temperature'[d] < 18 THEN "ComfortMode"
                                  ELSE "EcoMode"
            /\ \A o \in Obs \ subs : strategy'[o] = strategy[o]
            /\ Len(Activations(trace'))
                   = IF temperature'[d] < 18 THEN Cardinality(subs) ELSE 0
       ]_vars

\* C12's case: one subscribed heating system observes 16
C12_Witness ==
    /\ op.name = "setTemperature"
    /\ temperature["sensor"] = 16
    /\ observers["sensor"] = <<"heating">>
    /\ strategy["heating"] = "ComfortMode"
    /\ Len(Activations(trace)) = 1

\* C18: lock and unlock change only isLocked of the target door, turnOn
\* and turnOff only isOn of the target, setTemperature only the
\* temperature of the target sensor; no field of another device, no
\* collection of the registry, no subscription and no undo history changes.
C18_TransitionFrame ==
    [][op'.name \in Transitions =>
        LET d == op'.arg
        IN  /\ op'.name \in {"lock", "unlock"} =>
                   /\ isOn' = isOn /\ temperature' = temperature
                   /\ \A e \in Doors \ {d} : isLocked'[e] = isLocked[e]
            /\ op'.name \in {"turnOn", "turnOff"} =>
                   /\ isLocked' = isLocked /\ temperature' = temperature
                   /\ \A e \in Dev \ {d} : isOn'[e] = isOn[e]
            /\ op'.name = "setTemperature" =>
                   /\ isOn' = isOn /\ isLocked' = isLocked
                   /\ \A e \in Sensors \ {d} : temperature'[e] = temperature[e]
            /\ UNCHANGED <<devices, users, chatUsers, observers, history>>
       ]_vars

\* C18's case: a door is unlocked while the light and the adapter are on
C18_Witness ==
    /\ op.name = "unlock"
    /\ ~isLocked["door"]
    /\ ~isOn["door"]
    /\ isOn["light"] /\ isOn["adapter"]
    /\ temperature["sensor"] = 16

\* the description heat() gives for a strategy
Description(s) ==
    IF s = "ComfortMode" THEN "Comfort mode: Heating to 22C"
    ELSE "Eco mode: Heating to 18C"

\* a step changes a strategy only by a sensor's notification, and heat()
\* describes the strategy held
StrategyStep ==
    /\ \A o \in Obs :
           strategy'[o] # strategy[o] =>
               /\ op'.name = "setTemperature"
               /\ o \in Range(observers[op'.arg])
    /\ op'.name = "heat" =>
           /\ result' = Description(strategy[op'.arg])
           /\ strategy' = strategy

\* C19: every heating system starts in EcoMode; its strategy changes only
\* in a setTemperature of a sensor it is subscribed to (no notification of
\* another device and no other call changes it); and heat() returns the
\* description of the strategy it holds and leaves it as it is.
C19_StrategyChangesOnlyOnSensor ==
    /\ \A o \in Obs : strategy[o] = "EcoMode"
    /\ [][StrategyStep]_vars

\* C19's case: a heating system in ComfortMode is notified by the light
C19_Witness ==
    /\ op.name = "turnOn"
    /\ op.arg = "light"
    /\ observers["light"] = <<"heating">>
    /\ observers["sensor"] = <<"heating">>
    /\ Len(Updates(trace)) = 1
    /\ strategy["heating"] = "ComfortMode"

\* the step is pressButton of a command whose outermost object is a
\* LogCommand
LogPressed ==
    /\ op'.name = "pressButton"
    /\ op'.arg.wrappers # <<>>
    /\ Head(op'.arg.wrappers) = "LogCommand"

Record(message) == [ev |-> "systemLog", message |-> message]

\* C16: pressing LogCommand(c) emits the 'before' record naming c's class,
\* then what one c.execute() emits, then the 'after' record with c's
\* result; it returns that result and changes the devices as c.execute()
\* does.  LogCommand(SecurityProxy(LightOffCommand)) with the front door
\* unlocked returns the warning, changes no device and emits exactly the
\* two records.
C16_LogCommandOnlyRecords ==
    [][LogPressed =>
        LET inner == Inner(op'.arg)
            r == execute(World, inner)
        IN  /\ trace' = <<Record("Executing command: " \o ConstructorName(inner))>>
                            \o r.w.trace
                            \o <<Record("Command result: " \o r.ret)>>
            /\ result' = r.ret
            /\ isOn' = r.w.isOn /\ isLocked' = r.w.isLocked
            /\ (/\ inner.wrappers = <<"SecurityProxy">>
                /\ inner.type = "LightOffCommand"
                /\ FrontDoorUnlocked) =>
                   /\ result' = SecurityWarning
                   /\ isOn' = isOn /\ isLocked' = isLocked
                   /\ trace' = <<Record("Executing command: SecurityProxy"),
                                 Record("Command result: " \o SecurityWarning)>>
       ]_vars

\* C16's case: the audited, refused turn-off of a light that is on and
\* observed
C16_Witness ==
    /\ op.name = "pressButton"
    /\ op.arg = Wrap("LogCommand",
                     Wrap("SecurityProxy", Cmd("LightOffCommand", "light")))
    /\ result = SecurityWarning
    /\ isOn["light"]
    /\ observers["light"] # <<>>
    /\ Len(trace) = 2

(***************************************************************************)
(* The scenarios of the facade.                                            *)
(***************************************************************************)
LightOffConfirmation == "Light Living Room Light turned off"
LightOnConfirmation == "Light Living Room Light turned on"
DoorLockConfirmation == "Door Front Door locked"
DoorUnlockConfirmation == "Door Front Door unlocked"

\* the devices the two scenarios look up, before the step
TheLight == findDevice("Living Room Light")
TheDoor == findDevice("Front Door")

\* the number of steps of a scenario that find their device
Present ==
    (IF TheLight # Undefined THEN 1 ELSE 0)
        + (IF TheDoor # Undefined THEN 1 ELSE 0)

\* C13: leaveHome with 'Living Room Light' and 'Front Door' both
\* registered, the light on and the door locked, returns exactly the
\* light-off confirmation and then the door-lock confirmation; afterwards
\* the light is off, the door is locked, and the history of the facade's
\* remote has gained the two commands in that order.
C13_LeaveHomeBothPresent ==
    [][(/\ op'.name = "leaveHome"
        /\ TheLight # Undefined /\ TheDoor # Undefined
        /\ isOn[TheLight] /\ isLocked[TheDoor])
       => /\ result' = <<LightOffConfirmation, DoorLockConfirmation>>
          /\ ~isOn'[TheLight]
          /\ isLocked'[TheDoor]
          /\ history' = history \o <<LeaveLightCommand(TheLight),
                                     LeaveDoorCommand(TheDoor)>>
      ]_vars

\* a leaveHome on a new facade that found the light on and the door locked
C13_Witness ==
    /\ op.name = "leaveHome"
    /\ result = <<LightOffConfirmation, DoorLockConfirmation>>
    /\ Len(history) = 2
    /\ ~isOn["light"] /\ isLocked["door"]

\* what a scenario leaves when its steps are the light step and the door
\* step in the order given: one result and one history entry per device
\* found, and the fields of a device not found untouched
ScenarioStep(name, first, second, lightCommand, doorCommand, doorResult) ==
    op'.name = name =>
        /\ Len(result') = Present
        /\ Len(history') = Len(history) + Present
        /\ SubSeq(history', 1, Len(history)) = history
        /\ SubSeq(history', Len(history) + 1, Len(history')) =
              (IF first # Undefined THEN <<IF first = TheLight
                                           THEN lightCommand ELSE doorCommand>>
               ELSE <<>>)
              \o (IF second # Undefined THEN <<IF second = TheLight
                                               THEN lightCommand ELSE doorCommand>>
                  ELSE <<>>)
        /\ TheDoor # Undefined =>
              result'[IF first = TheDoor THEN 1 ELSE Present] = doorResult
        /\ TheLight = Undefined => isOn' = isOn
        /\ TheDoor = Undefined => isLocked' = isLocked
        /\ Present = 0 => result' = <<>> /\ Len(Updates(trace')) = 0

\* C14: in leaveHome and arriveHome a step whose device is not in the
\* registry is skipped: the results hold one entry per device found, in
\* the order light then door for leaveHome and door then light for
\* arriveHome, the history gains one command per step that ran, and the
\* device of a skipped step is not changed.
C14_AbsentStepSkipped ==
    [][/\ ScenarioStep("leaveHome", TheLight, TheDoor,
                       LeaveLightCommand("light"), LeaveDoorCommand("door"),
                       DoorLockConfirmation)
       /\ ScenarioStep("arriveHome", TheDoor, TheLight,
                       ArriveLightCommand("light"), ArriveDoorCommand("door"),
                       DoorUnlockConfirmation)
       /\ (op'.name = "leaveHome" /\ TheLight # Undefined) =>
              result'[1] \in {LightOffConfirmation, SecurityWarning}
       /\ (op'.name = "arriveHome" /\ TheLight # Undefined) =>
              result'[Present] = LightOnConfirmation /\ isOn'["light"]
      ]_vars

\* an arriveHome with only the door registered, the light off and left off
C14_Witness ==
    /\ op.name = "arriveHome"
    /\ TheLight = Undefined /\ TheDoor # Undefined
    /\ result = <<DoorUnlockConfirmation>>
    /\ Len(history) = 1
    /\ ~isOn["light"] /\ ~isLocked["door"]

\* C20: leaveHome right after arriveHome, both devices registered, ends
\* with the door locked and the light still on and returns the security
\* warning and then the door-lock confirmation; and leaveHome turns the
\* light off only if no registered 'Front Door' was unlocked when it
\* started.
C20_LeaveAfterArriveKeepsLightOn ==
    [][op'.name = "leaveHome" =>
          /\ (/\ op.name = "arriveHome"
              /\ TheLight # Undefined /\ TheDoor # Undefined)
             => /\ result' = <<SecurityWarning, DoorLockConfirmation>>
                /\ isLocked'[TheDoor]
                /\ isOn'[TheLight]
          /\ \A d \in Lights :
                \/ Len(SelectSeq(Updates(trace'), LAMBDA e : e.device = d)) = 0
                      /\ isOn'[d] = isOn[d]
                \/ ~FrontDoorUnlocked
      ]_vars

\* arriveHome and then leaveHome on one facade: four commands recorded,
\* the door locked, the light on
C20_Witness ==
    /\ op.name = "leaveHome"
    /\ result = <<SecurityWarning, DoorLockConfirmation>>
    /\ Len(history) = 4
    /\ history[1] = ArriveDoorCommand("door")
    /\ isOn["light"] /\ isLocked["door"]

(***************************************************************************)
(* The commands called directly.                                           *)
(***************************************************************************)
\* the fields of the devices now, and before the call recent[i]
Fields == <<isOn, isLocked>>
FieldsBefore(i) == <<recent[i].isOn, recent[i].isLocked>>

\* the fields a call of the command leaves, by its class
Leaves(name, c, before) ==
    LET forward == name = "Command.execute"
    IN  CASE c.type = "LightOnCommand" ->
                <<[before[1] EXCEPT ![c.device] = forward], before[2]>>
          [] c.type = "LightOffCommand" ->
                <<[before[1] EXCEPT ![c.device] = ~forward], before[2]>>
          [] c.type = "DoorLockCommand" ->
                <<before[1], [before[2] EXCEPT ![c.device] = forward]>>
          [] c.type = "DoorUnlockCommand" ->
                <<before[1], [before[2] EXCEPT ![c.device] = ~forward]>>

\* C17: the four commands are idempotent on device state: execute() twice
\* in a row leaves the fields that one execute() leaves, likewise undo(),
\* and execute() after undo() leaves what a single execute() leaves; each
\* call sets the field of the device the command was built with, in the
\* registry or not, and no other field.
C17_CommandsIdempotent ==
    /\ (/\ recent # <<>>
        /\ recent[Len(recent)].name \in {"Command.execute", "Command.undo"})
       => Fields = Leaves(recent[Len(recent)].name, Target,
                          FieldsBefore(Len(recent)))
    /\ CalledInTurn("Command.execute", "Command.execute")
          => Fields = FieldsBefore(2)
    /\ CalledInTurn("Command.undo", "Command.undo")
          => Fields = FieldsBefore(2)
    /\ CalledInTurn("Command.undo", "Command.execute")
          => Fields = Leaves("Command.execute", Target, FieldsBefore(1))

\* LightOffCommand of a light that is in no registry: undo() turned the
\* light on, execute() turned it off again
C17_Witness ==
    /\ CalledInTurn("Command.undo", "Command.execute")
    /\ Target = Cmd("LightOffCommand", "light")
    /\ \A i \in DOMAIN devices : devices[i] # "light"
    /\ recent[2].isOn["light"]
    /\ ~isOn["light"]

====
